---- MODULE Spec2Model ----
(***************************************************************************)
(* A model of shutter.py: the snapshot scheduler (Shutter.run, runOne,     *)
(* snapshotInstanceWithFrequency, makeOffsiteSnapshotWithFrequency,        *)
(* copySnapshot), the frequency gate (_timeWithinFrequency) and the        *)
(* pruner (pruneSnapshots).                                                *)
(*                                                                         *)
(* Time is counted in units of 10 minutes since 1 January, 00:00 UTC, of   *)
(* a non-leap year.  A snapshot is a record [time, managed]: its           *)
(* StartTime and whether it carries the Shutter-InstanceId tag.  Start     *)
(* times on one volume are unique, so the time identifies the snapshot.    *)
(***************************************************************************)
EXTENDS Integers, Sequences, FiniteSets, TLC

VARIABLES
    clock,        \* the real current instant (UTC)
    tz,           \* offset of the host's local clock from UTC
    concurrent,   \* argument of Shutter.run
    instances,    \* self.instances, a sequence of instance ids
    conf,         \* instance -> its resolved config (the Instance dict)
    hasVolume,    \* instance -> does getVolume(rootdevice) find a volume
    volSnaps,     \* instance -> snapshots on its root volume
    offSnaps,     \* instance -> StartTimes of its tagged copies offsite
    runpc,        \* position of Shutter.run
    nextIdx,      \* index in instances of the next instance run starts
    pc,           \* instance -> position of its runOne call
    snap,         \* instance -> local "snap" of runOne (a time, or NoSnap)
    srcState,     \* instance -> cloud state of the snapshot in "snap"
    pass,         \* instance -> what its current runOne call did so far
    createdNow,   \* instance -> primary snapshots created at this clock
    passesNow,    \* instance -> runOne calls ended at this clock
    runs,         \* invocations of Shutter.run at this clock
    ticks,        \* times the clock has advanced
    made,         \* instance -> primary snapshots and offsite copies made
    coercible,    \* instance -> can every Shutter- tag of it be coerced
    listed,       \* is the offsite region in the config's Regions
    ec2,          \* is the offsite region in self.ec2
    sessions,     \* session resources created for the offsite region
    creating,     \* instance -> its thread is in initRegion, past the test
    pSnapshots,   \* pruner alone: argument "snapshots", a sequence of times
    pHistsize,    \* pruner alone: argument "histsize"
    pDeleted,     \* pruner alone: the snapshots deleted, in order
    pReturn,      \* pruner alone: the returned count
    pDone,        \* pruner alone: has the call been made
    pFail,        \* pruner alone: the snapshots whose delete() raises
    pAttempted,   \* pruner alone: the snapshots delete() was called on
    pRaised,      \* pruner alone: did the call end by an exception
    gTime,        \* gate alone: argument "time", the last snapshot's start
    gFreq,        \* gate alone: argument "frequency"
    gNow,         \* gate alone: the real current instant (UTC)
    gZone,        \* gate alone: offset of the host's local clock from UTC
    gDue,         \* gate alone: what the last call returned
    gPrev,        \* gate alone: what the call before it returned
    gCalls,       \* gate alone: calls made
    gpc           \* gate alone: "call" before a call, "wait" after it

vars == <<clock, tz, concurrent, instances, conf, hasVolume, volSnaps,
          offSnaps, runpc, nextIdx, pc, snap, srcState, pass, createdNow,
          passesNow, runs, ticks, made, coercible, listed, ec2, sessions,
          creating, pSnapshots, pHistsize, pDeleted, pReturn, pDone,
          pFail, pAttempted, pRaised,
          gTime, gFreq, gNow, gZone, gDue, gPrev, gCalls, gpc>>

runVars == <<clock, tz, concurrent, instances, conf, hasVolume, volSnaps,
             offSnaps, runpc, nextIdx, pc, snap, srcState, pass, createdNow,
             passesNow, runs, ticks, made, coercible, listed, ec2,
             sessions, creating>>

pruneVars == <<pSnapshots, pHistsize, pDeleted, pReturn, pDone, pFail,
               pAttempted, pRaised>>

regionVars == <<listed, ec2, sessions, creating>>

gateVars == <<gTime, gFreq, gNow, gZone, gDue, gPrev, gCalls, gpc>>

pureVars == <<pruneVars, gateVars>>

None == "None"
NoSnap == 0 - 1

(***************************************************************************)
(* Bounds of the model.                                                    *)
(***************************************************************************)
MaxHist == 3       \* historysize ranges over 0..MaxHist
MaxOffHist == 1    \* offsitehistorysize ranges over 0..MaxOffHist
MaxLen == 4        \* pruner alone: longest list handed to it
MaxCalls == 2      \* gate alone: calls of the gate in a row
NumShared == 2     \* instances that share one offsite region
MaxRuns == 2       \* invocations of Shutter.run at one clock value
MaxTicks == 1      \* times the clock advances between invocations
NumInst == 3       \* instances of the run with several instances

(***************************************************************************)
(* Time.                                                                   *)
(***************************************************************************)
Day == 144
Week == 7 * Day
jitter_minutes == 1
StartClock == 45 * Day + 60

Min(a, b) == IF a < b THEN a ELSE b
Max(a, b) == IF a > b THEN a ELSE b

MonthLen == <<31, 28, 31, 30, 31, 30, 31, 31, 30, 31, 30, 31>>

RECURSIVE DaysBefore(_)
DaysBefore(m) == IF m <= 1 THEN 0 ELSE DaysBefore(m - 1) + MonthLen[m - 1]

\* the month (1..12) of day-of-year d (0..364)
MonthOf(d) == CHOOSE m \in 1..12 : DaysBefore(m) <= d /\ d < DaysBefore(m) + MonthLen[m]

\* time + relativedelta(months=1): the same day of the next month, or its
\* last day when the next month is shorter; the time of day is kept.
AddMonth(t) ==
    LET day  == t \div Day
        tod  == t % Day
        year == day \div 365
        doy  == day % 365
        m    == MonthOf(doy)
        dom  == doy - DaysBefore(m) + 1
        m2   == IF m = 12 THEN 1 ELSE m + 1
        y2   == IF m = 12 THEN year + 1 ELSE year
        dom2 == Min(dom, MonthLen[m2])
    IN  (y2 * 365 + DaysBefore(m2) + dom2 - 1) * Day + tod

Frequencies == {"daily", "weekly", "monthly", "hourly"}

\* frequency.lower(), on the spellings the model uses
lower(frequency) ==
    CASE frequency = "Daily"  -> "daily"
      [] frequency = "WEEKLY" -> "weekly"
      [] OTHER                -> frequency

\* the gate with the interval left out: due as soon as "time" has passed
MutTimeWithinFrequency(time, frequency, now, zone) ==
    lower(frequency) \in {"daily", "weekly", "monthly"} /\ now + zone >= time

\* Shutter._timeWithinFrequency(time, frequency) read at the real instant
\* now on a host whose local clock is offset by zone: datetime.now() is the
\* local wall-clock reading, relabelled with the zone of "time".  The
\* default jitter of 10 minutes is one unit of time.

timeWithinFrequency(time, frequency, now, zone) ==
    CASE lower(frequency) = "daily" ->
             now + zone >= (time + Day) - jitter_minutes
      [] lower(frequency) = "weekly" ->
             now + zone >= (time + Week) - jitter_minutes
      [] lower(frequency) = "monthly" ->
             now + zone >= AddMonth(time) - jitter_minutes
      [] OTHER -> FALSE

(***************************************************************************)
(* Lists.                                                                  *)
(***************************************************************************)
\* Python's s[:k]
SlicePrefix(s, k) ==
    LET n == IF k >= 0 THEN Min(k, Len(s)) ELSE Max(Len(s) + k, 0)
    IN  SubSeq(s, 1, n)

Range(s) == {s[j] : j \in 1..Len(s)}

\* list.sort(key=StartTime) of a set of snapshots with distinct start times
RECURSIVE SortByTime(_)
SortByTime(S) ==
    IF S = {} THEN <<>>
    ELSE LET last == CHOOSE x \in S : \A y \in S : y.time <= x.time
         IN  Append(SortByTime(S \ {last}), last)

RECURSIVE SortTimes(_)
SortTimes(S) ==
    IF S = {} THEN <<>>
    ELSE LET last == CHOOSE x \in S : \A y \in S : y <= x
         IN  Append(SortTimes(S \ {last}), last)

(***************************************************************************)
(* Shutter.pruneSnapshots: the list of snapshots it deletes, in order.     *)
(***************************************************************************)
\* a pruner that deletes the whole list when it is over the history size
MutPruneSnapshots(snapshots, histsize) ==
    IF Len(snapshots) > histsize THEN snapshots ELSE <<>>

pruneSnapshots(snapshots, histsize) ==
    IF Len(snapshots) > histsize
    THEN SlicePrefix(snapshots, histsize - 1)
    ELSE <<>>

(***************************************************************************)
(* The pruner alone: one call of pruneSnapshots on any list of distinct    *)
(* snapshots, in any order, with any history size.                         *)
(***************************************************************************)
PruneInputs ==
    {s \in UNION {[1..n -> 1..MaxLen] : n \in 0..MaxLen} :
        \A j, k \in 1..Len(s) : j # k => s[j] # s[k]}

RunIdle ==
    /\ clock = StartClock
    /\ tz = 0
    /\ concurrent = FALSE
    /\ instances = <<>>
    /\ conf = <<>>
    /\ hasVolume = <<>>
    /\ volSnaps = <<>>
    /\ offSnaps = <<>>
    /\ runpc = "idle"
    /\ nextIdx = 1
    /\ pc = <<>>
    /\ snap = <<>>
    /\ srcState = <<>>
    /\ pass = <<>>
    /\ createdNow = <<>>
    /\ passesNow = <<>>
    /\ runs = 0
    /\ ticks = 0
    /\ made = <<>>
    /\ coercible = <<>>
    /\ listed = FALSE
    /\ ec2 = FALSE
    /\ sessions = 0
    /\ creating = <<>>

PruneIdle ==
    /\ pSnapshots = <<>>
    /\ pHistsize = 0
    /\ pDeleted = <<>>
    /\ pReturn = 0
    /\ pDone = FALSE
    /\ pFail = {}
    /\ pAttempted = <<>>
    /\ pRaised = FALSE

GateIdle ==
    /\ gTime = 0
    /\ gFreq = "daily"
    /\ gNow = 0
    /\ gZone = 0
    /\ gDue = FALSE
    /\ gPrev = FALSE
    /\ gCalls = 0
    /\ gpc = "call"

InitPrune ==
    /\ RunIdle
    /\ GateIdle
    /\ pSnapshots \in PruneInputs
    /\ pHistsize \in 0..(MaxLen + 1)
    /\ pDeleted = <<>>
    /\ pReturn = 0
    /\ pDone = FALSE
    /\ pFail = {}
    /\ pAttempted = <<>>
    /\ pRaised = FALSE

\* the index in to_delete of the first snapshot whose delete() raises, or
\* one past its end
FirstFail(to_delete, fail) ==
    LET bad == {j \in 1..Len(to_delete) : to_delete[j] \in fail}
    IN  IF bad = {} THEN Len(to_delete) + 1
        ELSE CHOOSE j \in bad : \A k \in bad : j <= k

\* the call, with its loop "deleted += 1; snap.delete()": an exception of
\* delete() leaves the loop and the function
PruneCall ==
    /\ ~pDone
    /\ LET to_delete == pruneSnapshots(pSnapshots, pHistsize)
           f == FirstFail(to_delete, pFail)
       IN  /\ pAttempted' = SubSeq(to_delete, 1, Min(f, Len(to_delete)))
           /\ pDeleted' = SubSeq(to_delete, 1, f - 1)
           /\ pReturn' = Min(f, Len(to_delete))
           /\ pRaised' = (f <= Len(to_delete))
    /\ pDone' = TRUE
    /\ UNCHANGED <<pSnapshots, pHistsize, pFail>>
    /\ UNCHANGED runVars
    /\ UNCHANGED gateVars

NextPrune == PruneCall

SpecPrune == InitPrune /\ [][NextPrune]_vars

\* the pruner alone, with deletes that can fail
InitDelete ==
    /\ RunIdle
    /\ GateIdle
    /\ pSnapshots \in PruneInputs
    /\ pHistsize \in 0..(MaxLen + 1)
    /\ pFail \in SUBSET Range(pSnapshots)
    /\ pDeleted = <<>>
    /\ pReturn = 0
    /\ pDone = FALSE
    /\ pAttempted = <<>>
    /\ pRaised = FALSE

SpecDelete == InitDelete /\ [][NextPrune]_vars

(***************************************************************************)
(* The frequency gate alone: calls of _timeWithinFrequency for one last    *)
(* snapshot and one frequency, at instants that follow each other.         *)
(***************************************************************************)
\* 31 January 10:00, 28 February 10:00 and 15 February 10:00
GateTimes == {30 * Day + 60, 58 * Day + 60, StartClock}

GateFrequencies == {"daily", "Daily", "weekly", "WEEKLY", "monthly", "hourly"}

\* how long after the last snapshot the gate is first called
GateDelays ==
    {0, Day - 85, Day - 2, Day - 1, Day, Day + 72, Week - 85, Week - 1,
     Week + 72, 28 * Day - 85, 28 * Day - 1, 28 * Day + 72, 31 * Day - 1}

\* offsets of the host's local clock: UTC-12, UTC-1, UTC, UTC+1, UTC+14
GateZones == {0 - 72, 0 - 6, 0, 6, 84}

\* between two calls the host's offset stays, or moves by an hour when
\* daylight saving time ends or begins
DstShifts == {0 - 6, 0, 6}

GateSteps == {1, 6, Day}

InitGate ==
    /\ RunIdle
    /\ PruneIdle
    /\ gTime \in GateTimes
    /\ gFreq \in GateFrequencies
    /\ gNow \in {gTime + d : d \in GateDelays}
    /\ gZone \in GateZones
    /\ gDue = FALSE
    /\ gPrev = FALSE
    /\ gCalls = 0
    /\ gpc = "call"

\* Shutter._timeWithinFrequency(gTime, gFreq) is called now
GateCall ==
    /\ gpc = "call"
    /\ gCalls < MaxCalls
    /\ gPrev' = gDue
    /\ gDue' = timeWithinFrequency(gTime, gFreq, gNow, gZone)
    /\ gCalls' = gCalls + 1
    /\ gpc' = "wait"
    /\ UNCHANGED <<gTime, gFreq, gNow, gZone>>
    /\ UNCHANGED runVars
    /\ UNCHANGED pruneVars

\* time passes until the next call
GateWait ==
    /\ gpc = "wait"
    /\ gCalls < MaxCalls
    /\ \E d \in GateSteps : gNow' = gNow + d
    /\ \E z \in DstShifts : gZone' = gZone + z
    /\ gpc' = "call"
    /\ UNCHANGED <<gTime, gFreq, gDue, gPrev, gCalls>>
    /\ UNCHANGED runVars
    /\ UNCHANGED pruneVars

NextGate == GateCall \/ GateWait

SpecGate == InitGate /\ [][NextGate]_vars

(***************************************************************************)
(* The run.  Configs, volumes and the snapshots found at the start.        *)
(***************************************************************************)
max_workers == 10

\* UTC and UTC+14, the largest offset there is
TzOffsets == {0, 84}

NoOffsite ==
    [frequency : Frequencies, historysize : 0..MaxHist,
     deleteoldsnapshots : BOOLEAN, offsitebackup : {FALSE},
     offsitefrequency : {"daily"}, offsitehistorysize : {0}]

WithOffsite ==
    [frequency : {"daily"}, historysize : 0..MaxHist,
     deleteoldsnapshots : BOOLEAN, offsitebackup : {TRUE},
     offsitefrequency : {"daily", "hourly"},
     offsitehistorysize : 0..MaxOffHist]

Configs == NoOffsite \cup WithOffsite

\* start times of the snapshots found on a volume at the start
InitTimes == {StartClock - 32 * Day, StartClock - Day + 1}

InitVolumes ==
    {S \in SUBSET [time : InitTimes, managed : BOOLEAN] :
        \A x, y \in S : x.time = y.time => x = y}

InitOffsite == {{}, {StartClock - 8 * Day}}

\* What one runOne call did: the list snapshotInstanceWithFrequency fetched
\* and the snapshot it gave the frequency gate (a list of 0 or 1), the same
\* for the offsite chain, and the list each pruneSnapshots call was handed
\* with the snapshots it deleted.
NoPass ==
    [started |-> FALSE, fetched |-> <<>>, latest |-> <<>>,
     created |-> FALSE, raised |-> FALSE,
     offStarted |-> FALSE, offFetched |-> <<>>, copyTried |-> FALSE,
     copied |-> FALSE,
     pruned |-> FALSE, hist |-> <<>>, del |-> <<>>,
     offPruned |-> FALSE, offHist |-> <<>>, offDel |-> <<>>]

InitRun(ids) ==
    /\ clock = StartClock
    /\ tz \in TzOffsets
    /\ concurrent \in BOOLEAN
    /\ instances = ids
    /\ runpc = "idle"
    /\ nextIdx = 1
    /\ pc = [i \in Range(ids) |-> "idle"]
    /\ snap = [i \in Range(ids) |-> NoSnap]
    /\ srcState = [i \in Range(ids) |-> None]
    /\ pass = [i \in Range(ids) |-> NoPass]
    /\ createdNow = [i \in Range(ids) |-> 0]
    /\ passesNow = [i \in Range(ids) |-> 0]
    /\ runs = 0
    /\ ticks = 0
    /\ made = [i \in Range(ids) |-> [primary |-> 0, offsite |-> 0]]
    /\ ec2 = FALSE
    /\ sessions = 0
    /\ creating = [i \in Range(ids) |-> FALSE]

\* one instance, any config, any snapshots on its volume; its offsite
\* region is one of the config's Regions
InitOne ==
    /\ InitRun(<<1>>)
    /\ coercible = [i \in {1} |-> TRUE]
    /\ listed = TRUE
    /\ conf \in [{1} -> Configs]
    /\ hasVolume \in [{1} -> BOOLEAN]
    /\ volSnaps \in [{1} -> InitVolumes]
    /\ \A i \in {1} : ~hasVolume[i] => volSnaps[i] = {}
    /\ offSnaps \in [{1} -> InitOffsite]
    /\ \A i \in {1} : ~conf[i].offsitebackup => offSnaps[i] = {}
    /\ PruneIdle
    /\ GateIdle

\* several instances with the default config; each has its volume or not,
\* an old snapshot on it or not, and a Shutter-historysize tag that int()
\* accepts or not
DefaultConfig ==
    [frequency |-> "daily", historysize |-> 2, deleteoldsnapshots |-> TRUE,
     offsitebackup |-> FALSE, offsitefrequency |-> "daily",
     offsitehistorysize |-> 0]

InitMany ==
    /\ InitRun([j \in 1..NumInst |-> j])
    /\ coercible \in [1..NumInst -> BOOLEAN]
    /\ listed = TRUE
    /\ tz = 0
    /\ conf = [i \in 1..NumInst |-> DefaultConfig]
    /\ hasVolume \in [1..NumInst -> BOOLEAN]
    /\ volSnaps \in [1..NumInst ->
                       {{}, {[time |-> StartClock - 32 * Day, managed |-> TRUE]}}]
    /\ \A i \in 1..NumInst : ~hasVolume[i] => volSnaps[i] = {}
    /\ offSnaps = [i \in 1..NumInst |-> {}]
    /\ PruneIdle
    /\ GateIdle

\* instances that replicate to one and the same offsite region, which is
\* or is not one of the config's Regions; each has a snapshot due and a copy
\* offsite that is not
SharedConfig ==
    [frequency |-> "daily", historysize |-> 2, deleteoldsnapshots |-> FALSE,
     offsitebackup |-> TRUE, offsitefrequency |-> "monthly",
     offsitehistorysize |-> 1]

InitShared ==
    /\ InitRun([j \in 1..NumShared |-> j])
    /\ tz = 0
    /\ coercible = [i \in 1..NumShared |-> TRUE]
    /\ listed \in BOOLEAN
    /\ conf = [i \in 1..NumShared |-> SharedConfig]
    /\ hasVolume = [i \in 1..NumShared |-> TRUE]
    /\ volSnaps \in [1..NumShared ->
                       {{}, {[time |-> StartClock - 32 * Day, managed |-> TRUE]}}]
    /\ offSnaps = [i \in 1..NumShared |-> {StartClock - 8 * Day}]
    /\ PruneIdle
    /\ GateIdle

Init == InitOne \/ InitMany \/ InitShared

Ended(p) == p \in {"done", "raised"}

\* runOne of instance i moves to position p
Goto(i, p) ==
    /\ pc' = [pc EXCEPT ![i] = p]
    /\ passesNow' = [passesNow EXCEPT ![i] = IF Ended(p) THEN @ + 1 ELSE @]

\* where runOne goes after snapshotInstanceWithFrequency returned s
AfterOffsite(i) == IF conf[i].deleteoldsnapshots THEN "prune" ELSE "done"

\* the offsite step taken whether or not a snapshot was just created
MutAfterSnapshot(i, s) ==
    IF conf[i].offsitebackup THEN "offsite" ELSE AfterOffsite(i)

AfterSnapshot(i, s) ==
    IF conf[i].offsitebackup /\ s # NoSnap THEN "offsite" ELSE AfterOffsite(i)
AfterPrune(i) == IF conf[i].offsitebackup THEN "pruneoff" ELSE "done"

\* Instance.getVolumeSnapshots: every snapshot of the volume, no filter
getVolumeSnapshots(i) == IF hasVolume[i] THEN volSnaps[i] ELSE {}

\* Instance.getRootVolumeSnapshots
getRootVolumeSnapshots(i) == SortByTime(getVolumeSnapshots(i))

\* Shutter.getInstanceOffsiteBackupSnapshots: tagged snapshots offsite
getInstanceOffsiteBackupSnapshots(i) == SortTimes(offSnaps[i])

(***************************************************************************)
(* Shutter.run                                                             *)
(***************************************************************************)
Running == {i \in Range(instances) : pc[i] \notin {"idle", "done", "raised"}}

\* Instance.__init__ for every discovered instance: type(self[k])(v) raises
\* for a tag value the type of the default does not accept
populateInstances == \A i \in Range(instances) : coercible[i]

\* the process is started: __main__ constructs Shutter, which makes the
\* session resource of every region of the config's Regions and resolves
\* the instances, and calls Shutter.run; an exception of the constructor
\* ends the process before run is called
RunStart ==
    /\ runpc \in {"idle", "done", "raised"}
    /\ runs < MaxRuns
    /\ runpc' = IF populateInstances THEN "loop" ELSE "raised"
    /\ nextIdx' = 1
    /\ runs' = runs + 1
    /\ pc' = [i \in Range(instances) |-> "idle"]
    /\ snap' = [i \in Range(instances) |-> NoSnap]
    /\ srcState' = [i \in Range(instances) |-> None]
    /\ pass' = [i \in Range(instances) |-> NoPass]
    /\ UNCHANGED <<clock, tz, concurrent, instances, conf, hasVolume,
                   volSnaps, offSnaps, createdNow, passesNow, ticks>>
    /\ ec2' = listed
    /\ sessions' = IF listed THEN 1 ELSE 0
    /\ creating' = [i \in Range(instances) |-> FALSE]
    /\ UNCHANGED <<made, coercible, listed>>
    /\ UNCHANGED pureVars

\* concurrent: e.submit(self.runOne, i); a worker of the pool takes it
Submit ==
    /\ runpc = "loop"
    /\ concurrent
    /\ nextIdx <= Len(instances)
    /\ Cardinality(Running) < max_workers
    /\ pc' = [pc EXCEPT ![instances[nextIdx]] = "snap"]
    /\ nextIdx' = nextIdx + 1
    /\ UNCHANGED <<clock, tz, concurrent, instances, conf, hasVolume,
                   volSnaps, offSnaps, runpc, snap, srcState, pass,
                   createdNow, passesNow, runs, ticks>>
    /\ UNCHANGED <<made, coercible>>
    /\ UNCHANGED regionVars
    /\ UNCHANGED pureVars

\* not concurrent: self.runOne(i), once the call before it has returned
CallRunOne ==
    /\ runpc = "loop"
    /\ ~concurrent
    /\ nextIdx <= Len(instances)
    /\ nextIdx > 1 => pc[instances[nextIdx - 1]] = "done"
    /\ pc' = [pc EXCEPT ![instances[nextIdx]] = "snap"]
    /\ nextIdx' = nextIdx + 1
    /\ UNCHANGED <<clock, tz, concurrent, instances, conf, hasVolume,
                   volSnaps, offSnaps, runpc, snap, srcState, pass,
                   createdNow, passesNow, runs, ticks>>
    /\ UNCHANGED <<made, coercible>>
    /\ UNCHANGED regionVars
    /\ UNCHANGED pureVars

\* not concurrent: an exception of runOne leaves the loop and run
RunRaise ==
    /\ runpc = "loop"
    /\ ~concurrent
    /\ nextIdx > 1
    /\ pc[instances[nextIdx - 1]] = "raised"
    /\ runpc' = "raised"
    /\ UNCHANGED <<clock, tz, concurrent, instances, conf, hasVolume,
                   volSnaps, offSnaps, nextIdx, pc, snap, srcState, pass,
                   createdNow, passesNow, runs, ticks>>
    /\ UNCHANGED <<made, coercible>>
    /\ UNCHANGED regionVars
    /\ UNCHANGED pureVars

\* run returns: the loop is over and, when concurrent, the pool has shut
\* down (the exception of a future nobody reads is dropped)
RunReturn ==
    /\ runpc = "loop"
    /\ nextIdx > Len(instances)
    /\ IF concurrent
       THEN \A i \in Range(instances) : Ended(pc[i])
       ELSE \A i \in Range(instances) : pc[i] = "done"
    /\ runpc' = "done"
    /\ UNCHANGED <<clock, tz, concurrent, instances, conf, hasVolume,
                   volSnaps, offSnaps, nextIdx, pc, snap, srcState, pass,
                   createdNow, passesNow, runs, ticks>>
    /\ UNCHANGED <<made, coercible>>
    /\ UNCHANGED regionVars
    /\ UNCHANGED pureVars

\* time passes between two invocations of the process
TickSteps == {Day - jitter_minutes, Week}

Tick ==
    /\ runpc \in {"idle", "done", "raised"}
    /\ ticks < MaxTicks
    /\ \E d \in TickSteps : clock' = clock + d
    /\ ticks' = ticks + 1
    /\ runs' = 0
    /\ runpc' = "idle"
    /\ pc' = [i \in Range(instances) |-> "idle"]
    /\ snap' = [i \in Range(instances) |-> NoSnap]
    /\ srcState' = [i \in Range(instances) |-> None]
    /\ pass' = [i \in Range(instances) |-> NoPass]
    /\ createdNow' = [i \in Range(instances) |-> 0]
    /\ passesNow' = [i \in Range(instances) |-> 0]
    /\ UNCHANGED <<tz, concurrent, instances, conf, hasVolume, volSnaps,
                   offSnaps, nextIdx>>
    /\ UNCHANGED <<made, coercible>>
    /\ UNCHANGED regionVars
    /\ UNCHANGED pureVars

(***************************************************************************)
(* Shutter.runOne, step by step                                            *)
(***************************************************************************)
\* snap = self.snapshotInstanceWithFrequency(instance)
snapshotInstanceWithFrequency(i) ==
    /\ pc[i] = "snap"
    /\ LET snaps   == getRootVolumeSnapshots(i)
           latest  == snaps[Len(snaps)]
           take    == IF Len(snaps) > 0
                      THEN timeWithinFrequency(latest.time, conf[i].frequency,
                                               clock, tz)
                      ELSE conf[i].historysize > 0
           \* latest is unbound when there is no snapshot and historysize
           \* is 0; Instance.snapshot calls .format on None when the
           \* volume is not found
           raises  == \/ Len(snaps) = 0 /\ conf[i].historysize <= 0
                      \/ take /\ ~hasVolume[i]
           seen    == IF Len(snaps) > 0 THEN <<latest>> ELSE <<>>
       IN  IF raises
           THEN /\ Goto(i, "raised")
                /\ pass' = [pass EXCEPT ![i].started = TRUE, ![i].fetched = snaps,
                                        ![i].latest = seen, ![i].raised = TRUE]
                /\ UNCHANGED <<volSnaps, snap, srcState, createdNow, made>>
           ELSE IF take
           THEN /\ volSnaps' = [volSnaps EXCEPT
                                   ![i] = @ \cup {[time |-> clock, managed |-> TRUE]}]
                /\ snap' = [snap EXCEPT ![i] = clock]
                /\ srcState' = [srcState EXCEPT ![i] = "pending"]
                /\ createdNow' = [createdNow EXCEPT ![i] = @ + 1]
                /\ made' = [made EXCEPT ![i].primary = @ + 1]
                /\ pass' = [pass EXCEPT ![i].started = TRUE, ![i].fetched = snaps,
                                        ![i].latest = seen, ![i].created = TRUE]
                /\ Goto(i, AfterSnapshot(i, clock))
           ELSE /\ pass' = [pass EXCEPT ![i].started = TRUE, ![i].fetched = snaps,
                                        ![i].latest = seen]
                /\ Goto(i, AfterSnapshot(i, NoSnap))
                /\ UNCHANGED <<volSnaps, snap, srcState, createdNow, made>>
    /\ UNCHANGED <<clock, tz, concurrent, instances, conf, hasVolume,
                   offSnaps, runpc, nextIdx, runs, ticks>>
    /\ UNCHANGED coercible
    /\ UNCHANGED regionVars
    /\ UNCHANGED pureVars

\* has the call of initRegion for the offsite region returned to the
\* thread of instance i: the region is in self.ec2, and the thread is not
\* between the test and the assignment
initRegionReturned(i) == ec2 /\ ~creating[i]

\* Shutter.initRegion for the offsite region, called without a lock from
\* getInstanceOffsiteBackupSnapshots: the test of self.ec2, and then the
\* creation and assignment of the session resource
initRegion(i) ==
    /\ pc[i] \in {"offsite", "pruneoff"}
    /\ \/ /\ ~ec2 /\ ~creating[i]
          /\ creating' = [creating EXCEPT ![i] = TRUE]
          /\ UNCHANGED <<ec2, sessions>>
       \/ /\ creating[i]
          /\ sessions' = sessions + 1
          /\ ec2' = TRUE
          /\ creating' = [creating EXCEPT ![i] = FALSE]
    /\ UNCHANGED <<clock, tz, concurrent, instances, conf, hasVolume,
                   volSnaps, offSnaps, runpc, nextIdx, pc, snap, srcState,
                   pass, createdNow, passesNow, runs, ticks>>
    /\ UNCHANGED <<made, coercible, listed>>
    /\ UNCHANGED pureVars

\* self.makeOffsiteSnapshotWithFrequency(instance, snap), up to the call
\* of copySnapshot
makeOffsiteSnapshotWithFrequency(i) ==
    /\ pc[i] = "offsite"
    /\ initRegionReturned(i)
    /\ LET offsite_snaps == getInstanceOffsiteBackupSnapshots(i)
           latest == offsite_snaps[Len(offsite_snaps)]
           copy   == IF Len(offsite_snaps) > 0
                     THEN timeWithinFrequency(latest, conf[i].offsitefrequency,
                                              clock, tz)
                     ELSE conf[i].offsitehistorysize > 0
           raises == Len(offsite_snaps) = 0 /\ conf[i].offsitehistorysize <= 0
       IN  IF raises
           THEN /\ Goto(i, "raised")
                /\ pass' = [pass EXCEPT ![i].offStarted = TRUE,
                                        ![i].offFetched = offsite_snaps,
                                        ![i].raised = TRUE]
           ELSE /\ Goto(i, IF copy THEN "copy" ELSE AfterOffsite(i))
                /\ pass' = [pass EXCEPT ![i].offStarted = TRUE,
                                        ![i].offFetched = offsite_snaps,
                                        ![i].copyTried = copy]
    /\ UNCHANGED <<clock, tz, concurrent, instances, conf, hasVolume,
                   volSnaps, offSnaps, runpc, nextIdx, snap, srcState,
                   createdNow, runs, ticks>>
    /\ UNCHANGED <<made, coercible>>
    /\ UNCHANGED regionVars
    /\ UNCHANGED pureVars

\* the cloud finishes the snapshot just created, or fails it
SnapshotSettles(i) ==
    /\ pc[i] \in {"copy", "reload"}
    /\ srcState[i] = "pending"
    /\ \E st \in {"completed", "error"} :
          srcState' = [srcState EXCEPT ![i] = st]
    /\ UNCHANGED <<clock, tz, concurrent, instances, conf, hasVolume,
                   volSnaps, offSnaps, runpc, nextIdx, pc, snap, pass,
                   createdNow, passesNow, runs, ticks>>
    /\ UNCHANGED <<made, coercible>>
    /\ UNCHANGED regionVars
    /\ UNCHANGED pureVars

\* what client.copy_snapshot does with a completed source: the copy is made
\* (and tagged), the response is not a 200, or the call raises
CopyOutcomes == {"copied", "not200", "raises"}

\* Shutter.copySnapshot at the test of its wait loop: a source that is not
\* completed is reloaded, a completed one is copied and the copy tagged
copySnapshot(i) ==
    /\ pc[i] = "copy"
    /\ \/ /\ srcState[i] # "completed"
          /\ Goto(i, "reload")
          /\ UNCHANGED <<offSnaps, pass, made>>
       \/ /\ srcState[i] = "completed"
          /\ \E outcome \in CopyOutcomes :
               CASE outcome = "copied" ->
                      /\ offSnaps' = [offSnaps EXCEPT ![i] = @ \cup {clock}]
                      /\ pass' = [pass EXCEPT ![i].copied = TRUE]
                      /\ made' = [made EXCEPT ![i].offsite = @ + 1]
                      /\ Goto(i, AfterOffsite(i))
                 [] outcome = "not200" ->
                      /\ Goto(i, AfterOffsite(i))
                      /\ UNCHANGED <<offSnaps, pass, made>>
                 [] outcome = "raises" ->
                      /\ Goto(i, "raised")
                      /\ pass' = [pass EXCEPT ![i].raised = TRUE]
                      /\ UNCHANGED <<offSnaps, made>>
    /\ UNCHANGED <<clock, tz, concurrent, instances, conf, hasVolume,
                   volSnaps, runpc, nextIdx, snap, srcState, createdNow,
                   runs, ticks>>
    /\ UNCHANGED coercible
    /\ UNCHANGED regionVars
    /\ UNCHANGED pureVars

\* the body of the wait loop: snap.reload(), then return None for a source
\* in the error state, else back to the test of the loop; no turn of the
\* loop looks at the time spent
snapReload(i) ==
    /\ pc[i] = "reload"
    /\ Goto(i, IF srcState[i] = "error" THEN AfterOffsite(i) ELSE "copy")
    /\ UNCHANGED <<clock, tz, concurrent, instances, conf, hasVolume,
                   volSnaps, offSnaps, runpc, nextIdx, snap, srcState, pass,
                   createdNow, runs, ticks>>
    /\ UNCHANGED <<made, coercible>>
    /\ UNCHANGED regionVars
    /\ UNCHANGED pureVars

\* if prune: self.pruneSnapshots(instance.getRootVolumeSnapshots(), historysize)
\* the list fetched before the creation, kept for the pruning
MutPruneHistory(i) == pass[i].fetched

\* snapshots = instance.getRootVolumeSnapshots(), fetched anew in runOne
pruneHistory(i) == getRootVolumeSnapshots(i)

prunePrimary(i) ==
    /\ pc[i] = "prune"
    /\ LET snapshots == pruneHistory(i)
           to_delete == pruneSnapshots(snapshots, conf[i].historysize)
       IN  /\ volSnaps' = [volSnaps EXCEPT ![i] = @ \ Range(to_delete)]
           /\ pass' = [pass EXCEPT ![i].pruned = TRUE, ![i].hist = snapshots,
                                   ![i].del = to_delete]
    /\ Goto(i, AfterPrune(i))
    /\ UNCHANGED <<clock, tz, concurrent, instances, conf, hasVolume,
                   offSnaps, runpc, nextIdx, snap, srcState, createdNow,
                   runs, ticks>>
    /\ UNCHANGED <<made, coercible>>
    /\ UNCHANGED regionVars
    /\ UNCHANGED pureVars

\* if instance["offsitebackup"]: prune the offsite copies
pruneOffsite(i) ==
    /\ pc[i] = "pruneoff"
    /\ initRegionReturned(i)
    /\ LET snapshots == getInstanceOffsiteBackupSnapshots(i)
           to_delete == pruneSnapshots(snapshots, conf[i].offsitehistorysize)
       IN  /\ offSnaps' = [offSnaps EXCEPT ![i] = @ \ Range(to_delete)]
           /\ pass' = [pass EXCEPT ![i].offPruned = TRUE,
                                   ![i].offHist = snapshots,
                                   ![i].offDel = to_delete]
    /\ Goto(i, "done")
    /\ UNCHANGED <<clock, tz, concurrent, instances, conf, hasVolume,
                   volSnaps, runpc, nextIdx, snap, srcState, createdNow,
                   runs, ticks>>
    /\ UNCHANGED <<made, coercible>>
    /\ UNCHANGED regionVars
    /\ UNCHANGED pureVars

runOne(i) ==
    \/ snapshotInstanceWithFrequency(i)
    \/ initRegion(i)
    \/ makeOffsiteSnapshotWithFrequency(i)
    \/ copySnapshot(i)
    \/ snapReload(i)
    \/ prunePrimary(i)
    \/ pruneOffsite(i)

Next ==
    \/ RunStart
    \/ Submit
    \/ CallRunOne
    \/ RunRaise
    \/ RunReturn
    \/ Tick
    \/ \E i \in Range(instances) : runOne(i)
    \/ \E i \in Range(instances) : SnapshotSettles(i)

Spec == Init /\ [][Next]_vars

(***************************************************************************)
(* One instance that replicates offsite, with a worker that keeps taking   *)
(* steps; nothing obliges the cloud to settle the source snapshot.         *)
(***************************************************************************)
InitWait ==
    /\ InitRun(<<1>>)
    /\ tz = 0
    /\ coercible = [i \in {1} |-> TRUE]
    /\ listed \in BOOLEAN
    /\ conf \in [{1} -> {c \in WithOffsite : c.offsitefrequency = "daily"}]
    /\ hasVolume \in [{1} -> BOOLEAN]
    /\ volSnaps \in [{1} -> InitVolumes]
    /\ \A i \in {1} : ~hasVolume[i] => volSnaps[i] = {}
    /\ offSnaps \in [{1} -> InitOffsite]
    /\ PruneIdle
    /\ GateIdle

SpecWait == InitWait /\ [][Next]_vars /\ WF_vars(runOne(1))

(***************************************************************************)
(* Properties                                                              *)
(***************************************************************************)
IsSortedTimes(s) == \A j, k \in 1..Len(s) : j < k => s[j] < s[k]

IsManaged(x) == x.managed
Managed(s) == SelectSeq(s, IsManaged)

Last(s) == s[Len(s)]

\* the k newest elements of a list sorted oldest first
Newest(s, k) == {s[j] : j \in (Len(s) - Min(k, Len(s)) + 1)..Len(s)}

\* C1: one call of the pruner on a history of length n, sorted oldest first,
\* with retention count r deletes exactly min(max(0, n - r), max(0, n - 1))
\* snapshots, the oldest ones, and min(n, max(r, 1)) snapshots remain.
C1_PrunerDeletesExcess ==
    (pDone /\ IsSortedTimes(pSnapshots)) =>
        LET n == Len(pSnapshots)
            r == pHistsize
            k == Min(Max(0, n - r), Max(0, n - 1))
        IN  /\ pDeleted = SubSeq(pSnapshots, 1, k)
            /\ pReturn = k
            /\ n - Len(pDeleted) = Min(n, Max(r, 1))

\* C5: the pruner deletes the oldest snapshots by creation time whatever the
\* order of the list it is handed: every deleted snapshot is older than
\* every snapshot kept, and the deleted set is the one deleted for the same
\* snapshots handed over oldest first.
C5_PrunerOrderIndependent ==
    pDone =>
        /\ \A d \in Range(pDeleted) :
              \A k \in Range(pSnapshots) \ Range(pDeleted) : d < k
        /\ Range(pDeleted) =
              Range(pruneSnapshots(SortTimes(Range(pSnapshots)), pHistsize))

\* C2: no pruning deletes the most recent managed snapshot of the history it
\* prunes; a history with a managed snapshot keeps one (primary chain), and
\* a non-empty offsite history keeps its newest copy.
C2_KeepsAtLeastOne ==
    \A i \in Range(instances) :
        /\ (pass[i].pruned /\ Managed(pass[i].hist) # <<>>) =>
              Last(Managed(pass[i].hist)) \notin Range(pass[i].del)
        /\ (pass[i].offPruned /\ pass[i].offHist # <<>>) =>
              Last(pass[i].offHist) \notin Range(pass[i].offDel)

\* C3: with retention count r >= 1, no pruning deletes a snapshot that is
\* among the r most recent managed snapshots of its history.  Stated for
\* the histories that hold managed snapshots only, primary and offsite.
C3_RetainedNotDeleted ==
    \A i \in Range(instances) :
        /\ (pass[i].pruned /\ conf[i].historysize >= 1
                /\ pass[i].hist = Managed(pass[i].hist)) =>
              Range(pass[i].del) \cap
                  Newest(Managed(pass[i].hist), conf[i].historysize) = {}
        /\ (pass[i].offPruned /\ conf[i].offsitehistorysize >= 1) =>
              Range(pass[i].offDel) \cap
                  Newest(pass[i].offHist, conf[i].offsitehistorysize) = {}

\* C4: at the end of a runOne call in which pruning ran and nothing
\* failed, the volume holds at most max(r, 1) managed snapshots.  Stated
\* for the volumes that hold managed snapshots only.
C4_RetentionBound ==
    \A i \in Range(instances) :
        (pc[i] = "done" /\ pass[i].pruned /\ ~pass[i].raised
            /\ pass[i].hist = Managed(pass[i].hist)) =>
            Cardinality({x \in volSnaps[i] : x.managed})
                <= Max(conf[i].historysize, 1)

\* C6: with an empty history and a retention count of 0 the due-decision
\* creates nothing and raises nothing, for the primary chain and for the
\* offsite chain, and the call goes on to the pruning.
C6_ZeroHistoryZeroRetentionSkips ==
    \A i \in Range(instances) :
        /\ (pass[i].started /\ hasVolume[i] /\ pass[i].fetched = <<>>
                /\ conf[i].historysize = 0) =>
              ~pass[i].raised /\ ~pass[i].created
        /\ (pass[i].offStarted /\ pass[i].offFetched = <<>>
                /\ conf[i].offsitehistorysize = 0) =>
              ~pass[i].raised /\ ~pass[i].copied

\* C7: when the managed history is empty, the root volume exists and the
\* retention count is above 0, a runOne call creates exactly one primary
\* snapshot whatever the frequency, and that snapshot is on the volume when
\* the call ends.
C7_BaselineSnapshot ==
    \A i \in Range(instances) :
        (Ended(pc[i]) /\ pass[i].started /\ hasVolume[i]
            /\ Managed(pass[i].fetched) = <<>> /\ conf[i].historysize > 0) =>
            /\ pass[i].created
            /\ [time |-> snap[i], managed |-> TRUE] \in volSnaps[i]

\* C8: runOne calls on one instance with the clock not advanced create at
\* most one primary snapshot in all; a call that follows the creating one
\* is given the snapshot just created as the latest and creates none.
C8_RerunCreatesNoSecond ==
    \A i \in Range(instances) :
        /\ createdNow[i] <= 1
        /\ (createdNow[i] = 1 /\ pass[i].started /\ ~pass[i].created) =>
              pass[i].latest = <<[time |-> clock, managed |-> TRUE]>>

C8_Witness ==
    \E i \in Range(instances) :
        /\ passesNow[i] >= 2
        /\ createdNow[i] = 1
        /\ pc[i] = "done"
        /\ pass[i].started
        /\ ~pass[i].created
        /\ pass[i].latest = <<[time |-> clock, managed |-> TRUE]>>

\* C9: the snapshot the frequency gate is given is the latest managed one,
\* and no pruning deletes an unmanaged snapshot or counts one in the history
\* it compares with the retention count.
C9_UnmanagedInvisible ==
    \A i \in Range(instances) :
        /\ pass[i].started =>
              pass[i].latest =
                  IF Managed(pass[i].fetched) = <<>>
                  THEN <<>>
                  ELSE <<Last(Managed(pass[i].fetched))>>
        /\ pass[i].pruned =>
              /\ \A x \in Range(pass[i].del) : x.managed
              /\ pass[i].hist = Managed(pass[i].hist)

\* C10: when run is over, a failure in one instance has left no other
\* instance unprocessed, and run has not raised.
C10_FailureIsolated ==
    \A i, j \in Range(instances) :
        (i # j /\ pass[j].raised /\ runpc \in {"done", "raised"}) =>
            Ended(pc[i]) /\ runpc = "done"

\* C11: in every runOne call the offsite due-check and the copy happen only
\* with offsite backup enabled and after a primary snapshot was created in
\* the same call; so an instance never has more offsite copies made than
\* primary snapshots created.
C11_OffsiteFollowsPrimary ==
    \A i \in Range(instances) :
        /\ (pass[i].offStarted \/ pass[i].copyTried \/ pass[i].copied
                \/ pc[i] \in {"offsite", "copy", "reload"}) =>
              conf[i].offsitebackup /\ pass[i].created
        /\ made[i].offsite <= made[i].primary

C11_Witness ==
    \E i \in Range(instances) :
        /\ pc[i] = "done"
        /\ pass[i].copied
        /\ made[i].offsite = 2
        /\ made[i].primary = 2

Recognized(frequency) == lower(frequency) \in {"daily", "weekly", "monthly"}

\* time + interval(frequency)
NextDue(time, frequency) ==
    CASE lower(frequency) = "daily"   -> time + Day
      [] lower(frequency) = "weekly"  -> time + Week
      [] lower(frequency) = "monthly" -> AddMonth(time)

\* C12: for a recognized frequency the gate answers due exactly when the
\* real current instant is at or after t + interval - 10 minutes, whatever
\* the offset of the host's local clock.
C12_DueThreshold ==
    (gpc = "wait" /\ Recognized(gFreq)) =>
        (gDue <=> gNow >= NextDue(gTime, gFreq) - jitter_minutes)

\* C13: for a fixed last-snapshot time and a fixed recognized frequency, a
\* gate that answered due answers due at every later instant.
C13_GateMonotonic ==
    (gpc = "wait" /\ gCalls >= 2 /\ Recognized(gFreq) /\ gPrev) => gDue

\* C14: a pass over an instance that has history and a frequency other than
\* daily/weekly/monthly ends in an error, so it differs from a pass whose
\* gate answered not due.
C14_UnrecognizedIsError ==
    \A i \in Range(instances) :
        (pass[i].started /\ pass[i].latest # <<>>
             /\ ~Recognized(conf[i].frequency)) => pass[i].raised

\* C15: when a discovered instance carries an override that cannot be
\* coerced, the run still resolves and processes every other instance.
C15_BadOverrideIsolated ==
    (runs >= 1 /\ runpc \in {"done", "raised"}
         /\ \E j \in Range(instances) : ~coercible[j]) =>
        \A i \in Range(instances) : coercible[i] => pass[i].started

\* C16: when a pass created the primary snapshot and its offsite copy was
\* attempted and not made, the snapshot created in that pass exists on the
\* volume, at the end of the pass and after the pruning, for every history
\* size.
C16_FailedCopyKeepsPrimary ==
    \A i \in Range(instances) :
        (pass[i].created /\ pass[i].copyTried /\ ~pass[i].copied) =>
            [time |-> snap[i], managed |-> TRUE] \in volSnaps[i]

C16_Witness ==
    \E i \in Range(instances) :
        /\ pc[i] = "done"
        /\ pass[i].created /\ pass[i].copyTried /\ ~pass[i].copied
        /\ srcState[i] = "error"
        /\ pass[i].pruned /\ pass[i].del # <<>>
        /\ [time |-> snap[i], managed |-> TRUE] \in volSnaps[i]

\* C17: the wait for the source snapshot in copySnapshot always ends: a
\* worker that has entered copySnapshot eventually leaves it.
C17_WaitTerminates ==
    (pc[1] \in {"copy", "reload"}) ~> (pc[1] \notin {"copy", "reload"})

\* C18: during one run at most one session resource is created for the
\* offsite region, whatever the interleaving of the worker threads.
C18_RegionInitializedOnce == sessions <= 1

\* C19: when the delete of a selected snapshot fails, the pruner still
\* attempts the delete of every other selected snapshot, and it returns the
\* number of snapshots whose delete succeeded.
C19_BestEffortDelete ==
    pDone =>
        LET selected == pruneSnapshots(pSnapshots, pHistsize)
        IN  /\ pAttempted = selected
            /\ Range(pDeleted) = Range(selected) \ pFail
            /\ ~pRaised
            /\ pReturn = Len(pDeleted)

\* C20: within one pass the steps come in the order create, replicate,
\* prune primary, prune offsite, and each pruning is handed a history
\* fetched after the creation (the copy) of that pass: the snapshot just
\* created (copied) is an element of it.
C20_StepsOrderedHistoryFresh ==
    \A i \in Range(instances) :
        /\ pc[i] = "snap" => pass[i] = NoPass
        /\ pass[i].offStarted => pass[i].created
        /\ pc[i] \in {"offsite", "copy", "reload"} =>
              ~pass[i].pruned /\ ~pass[i].offPruned
        /\ pc[i] = "prune" => ~pass[i].pruned /\ ~pass[i].offPruned
        /\ pass[i].offPruned => pass[i].pruned /\ pc[i] = "done"
        /\ (pass[i].pruned /\ pass[i].created) =>
              [time |-> snap[i], managed |-> TRUE] \in Range(pass[i].hist)
        /\ (pass[i].offPruned /\ pass[i].copied) =>
              snap[i] \in Range(pass[i].offHist)

C20_Witness ==
    \E i \in Range(instances) :
        /\ pc[i] = "done"
        /\ pass[i].created /\ pass[i].copied
        /\ pass[i].pruned /\ pass[i].del # <<>>
        /\ pass[i].offPruned /\ pass[i].offDel # <<>>

====
